---- MODULE Spec2Model ----
(***************************************************************************)
(* Model of swift_logging_frames_filtering.py: the LLDB commands `bt`      *)
(* (filtered_backtrace) and `toggle-tasklocal-frames` (toggle_filter) and  *)
(* the module-level flag _filter_enabled.                                  *)
(*                                                                         *)
(* Python strings are sequences of text pieces.  A command string is a     *)
(* sequence of single characters; a function name is a sequence of pieces  *)
(* whose concatenation is the name, cut so that every literal of a filter  *)
(* pattern is a run of whole pieces and every digit is its own piece.      *)
(* An optional value (None or a value) is a record [isNone, v].            *)
(***************************************************************************)
EXTENDS Integers, Sequences, FiniteSets, TLC

\* Bounds of the model.
MaxFrames == 3      \* longest frame sequence of the selected thread
MaxCmds == 3        \* longest sequence of commands issued after load

None == [isNone |-> TRUE, v |-> <<>>]
Some(x) == [isNone |-> FALSE, v |-> x]

\* Python truthiness of an optional string: None and "" are falsy.
TruthyStr(o) == ~o.isNone /\ Len(o.v) > 0
\* Python truthiness of an optional int: None and 0 are falsy.
TruthyInt(o) == ~o.isNone /\ o.v # 0

(***************************************************************************)
(* int(command): surrounding whitespace is stripped, one optional sign,    *)
(* then decimal digits, single underscores allowed between digits.         *)
(* Anything else raises ValueError.                                        *)
(***************************************************************************)
Digits == {"0", "1", "2", "3", "4", "5", "6", "7", "8", "9"}
DigitVal == [c \in Digits |->
               CASE c = "0" -> 0 [] c = "1" -> 1 [] c = "2" -> 2 [] c = "3" -> 3
                 [] c = "4" -> 4 [] c = "5" -> 5 [] c = "6" -> 6 [] c = "7" -> 7
                 [] c = "8" -> 8 [] c = "9" -> 9]
Whitespace == {" "}

RECURSIVE lstrip(_)
lstrip(s) == IF Len(s) > 0 /\ s[1] \in Whitespace THEN lstrip(Tail(s)) ELSE s

RECURSIVE rstrip(_)
rstrip(s) == IF Len(s) > 0 /\ s[Len(s)] \in Whitespace
             THEN rstrip(SubSeq(s, 1, Len(s) - 1)) ELSE s

strip(s) == rstrip(lstrip(s))

\* The digit part of an integer literal: starts and ends with a digit, only
\* digits and underscores, and no two underscores in a row.
valid_digit_part(d) ==
    /\ Len(d) > 0
    /\ d[1] \in Digits
    /\ d[Len(d)] \in Digits
    /\ \A i \in 1..Len(d) : d[i] \in Digits \cup {"_"}
    /\ \A i \in 1..(Len(d) - 1) : ~(d[i] = "_" /\ d[i + 1] = "_")

RECURSIVE digits_value(_, _)
digits_value(d, acc) ==
    IF Len(d) = 0 THEN acc
    ELSE IF d[1] = "_" THEN digits_value(Tail(d), acc)
    ELSE digits_value(Tail(d), 10 * acc + DigitVal[d[1]])

py_int(s) ==
    LET t == strip(s)
        signed == Len(t) > 0 /\ t[1] \in {"+", "-"}
        d == IF signed THEN Tail(t) ELSE t
    IN IF valid_digit_part(d)
       THEN [exc |-> "none",
             n |-> IF signed /\ t[1] = "-" THEN 0 - digits_value(d, 0)
                   ELSE digits_value(d, 0)]
       ELSE [exc |-> "ValueError", n |-> 0]

\* Variant: the handler names another exception class.
caught_type_error(exc) == exc = "TypeError"

\* except ValueError: pass
caught(exc) == exc = "ValueError"

(***************************************************************************)
(* Lines 26-32: max_frames = None; if command: try int(command).           *)
(* The result is max_frames and the exception that leaves the handler.     *)
(***************************************************************************)
parse_count(command) ==
    IF Len(command) = 0 THEN [max_frames |-> None, error |-> "none"]
    ELSE LET r == py_int(command)
         IN IF r.exc = "none" THEN [max_frames |-> Some(r.n), error |-> "none"]
            ELSE IF caught(r.exc) THEN [max_frames |-> None, error |-> "none"]
            ELSE [max_frames |-> None, error |-> r.exc]

(***************************************************************************)
(* Regular expressions of filter_patterns.  A pattern is a sequence of     *)
(* elements: a literal piece, or \d+ (one or more digit pieces).           *)
(***************************************************************************)
Lit(p) == [kind |-> "lit", piece |-> p]
DigitsPlus == [kind |-> "digits+", piece |-> ""]

filter_patterns == <<
    << Lit("TaskLocal"), Lit("."), Lit("withValue") >>,
    << Lit("GlobalLoggerContext"), Lit("."), Lit("withTaskLocalLoggerInline") >>,
    << Lit("closure #"), DigitsPlus, Lit(" in static "),
       Lit("GlobalLoggerContext"), Lit("."), Lit("withTaskLocalLoggerInline") >> >>

\* Does pattern[j..] match s starting at position i ?
RECURSIVE match_at(_, _, _, _)
match_at(pattern, j, s, i) ==
    IF j > Len(pattern) THEN TRUE
    ELSE IF pattern[j].kind = "lit"
         THEN /\ i <= Len(s)
              /\ s[i] = pattern[j].piece
              /\ match_at(pattern, j + 1, s, i + 1)
         ELSE \E k \in 1..(Len(s) - i + 1) :
                 /\ \A m \in i..(i + k - 1) : s[m] \in Digits
                 /\ match_at(pattern, j + 1, s, i + k)

\* re.search: a match starting anywhere in the string.
re_search(pattern, s) == \E i \in 1..(Len(s) + 1) : match_at(pattern, 1, s, i)

(***************************************************************************)
(* Host-owned frames.  A frame has an id and an optional function name;    *)
(* its display form is the host's and is carried as the frame itself.      *)
(***************************************************************************)
Names == {
    None,
    Some(<<>>),
    Some(<< "main" >>),
    Some(<< "static ", "TaskLocal", ".", "withValue", "<A>" >>),
    Some(<< "TaskLocal", "_", "withValue" >>),
    Some(<< "closure #", "1", "2", " in static ",
            "GlobalLoggerContext", ".", "withTaskLocalLoggerInline" >>) }

Threads ==
    UNION { { [i \in 1..n |-> [id |-> i - 1, name |-> names[i]]] :
                names \in [1..n -> Names] } : n \in 0..MaxFrames }

GetFunctionName(frame) == frame.name
GetFrameID(frame) == frame.id

\* Command strings the user may type after the command name.
Commands == {
    <<>>,
    << "0" >>,
    << "1" >>,
    << " ", "2" >>,
    << "-", "1" >>,
    << "a", "b", "c" >>,
    << "1", "_" >> }

(***************************************************************************)
(* filtered_backtrace, lines 34-47.                                        *)
(***************************************************************************)
\* Variant: the comparison is strict.
limit_reached_strict(max_frames, frame_count) ==
    TruthyInt(max_frames) /\ frame_count > max_frames.v

\* Variant: only a positive count is a limit.
limit_reached_positive(max_frames, frame_count) ==
    ~max_frames.isNone /\ max_frames.v > 0 /\ frame_count >= max_frames.v

\* Variant: the guard asks `max_frames is not None`.
limit_reached_not_none(max_frames, frame_count) ==
    ~max_frames.isNone /\ frame_count >= max_frames.v

\* line 36: if max_frames and frame_count >= max_frames: break
limit_reached(max_frames, frame_count) ==
    TruthyInt(max_frames) /\ frame_count >= max_frames.v

\* Variant: re.match (anchored at the start) in place of re.search.
should_skip_match(enabled, frame_name) ==
    IF enabled /\ TruthyStr(frame_name)
    THEN \E p \in 1..Len(filter_patterns) :
            match_at(filter_patterns[p], 1, frame_name.v, 1)
    ELSE FALSE

\* Variant: the flag is not consulted.
should_skip_always(enabled, frame_name) ==
    IF TruthyStr(frame_name)
    THEN \E p \in 1..Len(filter_patterns) : re_search(filter_patterns[p], frame_name.v)
    ELSE FALSE

\* lines 40-43
should_skip(enabled, frame_name) ==
    IF enabled /\ TruthyStr(frame_name)
    THEN \E p \in 1..Len(filter_patterns) : re_search(filter_patterns[p], frame_name.v)
    ELSE FALSE

\* line 46: print(f"frame #{frame.GetFrameID()}: {frame}")
frame_line(frame) ==
    [fmt |-> "frame #{id}: {frame}", id |-> GetFrameID(frame), frame |-> frame]

\* Variant: the counter is incremented for every frame visited.
next_frame_count_all(skip, frame_count) == frame_count + 1

\* line 47, under `if not should_skip`
next_frame_count(skip, frame_count) == IF skip THEN frame_count ELSE frame_count + 1

\* The for loop from frame i on; acc holds the lines printed so far and the
\* number of frames whose name the loop has asked the host for.
RECURSIVE bt_loop(_, _, _, _, _, _)
bt_loop(thread, i, max_frames, enabled, frame_count, acc) ==
    IF i > Len(thread) THEN acc
    ELSE IF limit_reached(max_frames, frame_count) THEN acc
    ELSE LET frame == thread[i]
             skip == should_skip(enabled, GetFunctionName(frame))
         IN bt_loop(thread, i + 1, max_frames, enabled,
                    next_frame_count(skip, frame_count),
                    [out |-> IF skip THEN acc.out ELSE Append(acc.out, frame_line(frame)),
                     visited |-> acc.visited + 1])

\* What one run of filtered_backtrace prints, visits and raises.
render(thread, command, enabled) ==
    LET c == parse_count(command)
    IN IF c.error # "none"
       THEN [out |-> <<>>, visited |-> 0, error |-> c.error]
       ELSE LET r == bt_loop(thread, 1, c.max_frames, enabled, 0,
                             [out |-> <<>>, visited |-> 0])
            IN [out |-> r.out, visited |-> r.visited, error |-> "none"]

(***************************************************************************)
(* State.                                                                  *)
(***************************************************************************)
VARIABLES
    _filter_enabled,    \* the module global
    thread,             \* frames of the selected thread (host-owned)
    out,                \* lines printed by the last command
    visited,            \* frames the last bt asked the host about
    error,              \* exception that left the last command, or "none"
    arg,                \* command string handed to the last command
    trace               \* commands run since load: [op, before, after]

vars == << _filter_enabled, thread, out, visited, error, arg, trace >>

\* lines 68-71: the banner printed by __lldb_init_module
banner == <<
    [fmt |-> "swift-log LLDB helpers loaded."],
    [fmt |-> "  bt - filtered backtrace (task-local frames hidden by default)"],
    [fmt |-> "  btu - unfiltered backtrace (shows all frames)"],
    [fmt |-> "  toggle-tasklocal-frames - toggle filtering on/off"] >>

\* The module has been imported (line 8) and __lldb_init_module has run.
Init ==
    /\ _filter_enabled = TRUE
    /\ thread \in Threads
    /\ out = banner
    /\ visited = 0
    /\ error = "none"
    /\ arg = <<>>
    /\ trace = <<>>

\* Variant: the handler re-arms the filter.
filtered_backtrace_rearm ==
    /\ Len(trace) < MaxCmds
    /\ _filter_enabled' = TRUE
    /\ UNCHANGED thread
    /\ \E command \in Commands :
          LET r == render(thread, command, _filter_enabled)
          IN /\ out' = r.out
             /\ visited' = r.visited
             /\ error' = r.error
             /\ arg' = command
    /\ trace' = Append(trace, [op |-> "bt", before |-> _filter_enabled,
                               after |-> _filter_enabled'])

filtered_backtrace ==
    /\ Len(trace) < MaxCmds
    /\ UNCHANGED << _filter_enabled, thread >>
    /\ \E command \in Commands :
          LET r == render(thread, command, _filter_enabled)
          IN /\ out' = r.out
             /\ visited' = r.visited
             /\ error' = r.error
             /\ arg' = command
    /\ trace' = Append(trace, [op |-> "bt", before |-> _filter_enabled,
                               after |-> _filter_enabled'])

\* Variant: the message reports the state before the toggle.
status_of_old(enabled) == IF enabled THEN "disabled" ELSE "enabled"

\* line 57
status_of(enabled) == IF enabled THEN "enabled" ELSE "disabled"

\* Variant: the command switches filtering off instead of inverting it.
toggle_filter_off ==
    /\ Len(trace) < MaxCmds
    /\ \E command \in Commands : arg' = command
    /\ _filter_enabled' = FALSE
    /\ out' = << [fmt |-> "Task-local frame filtering {status}",
                  status |-> status_of(_filter_enabled')] >>
    /\ visited' = 0
    /\ error' = "none"
    /\ trace' = Append(trace, [op |-> "toggle", before |-> _filter_enabled,
                               after |-> _filter_enabled'])
    /\ UNCHANGED thread

toggle_filter ==
    /\ Len(trace) < MaxCmds
    /\ \E command \in Commands : arg' = command
    /\ _filter_enabled' = ~_filter_enabled
    /\ out' = << [fmt |-> "Task-local frame filtering {status}",
                  status |-> status_of(_filter_enabled')] >>
    /\ visited' = 0
    /\ error' = "none"
    /\ trace' = Append(trace, [op |-> "toggle", before |-> _filter_enabled,
                               after |-> _filter_enabled'])
    /\ UNCHANGED thread

Next == filtered_backtrace \/ toggle_filter

Spec == Init /\ [][Next]_vars

(***************************************************************************)
(* Properties.                                                             *)
(***************************************************************************)
last == trace[Len(trace)]
IsBt == Len(trace) > 0 /\ last.op = "bt"
IsToggle == Len(trace) > 0 /\ last.op = "toggle"

\* The last command was bt with a count that int() accepts.
CountParsed == IsBt /\ Len(arg) > 0 /\ py_int(arg).exc = "none"
Count == py_int(arg).n

\* What bt with no argument prints on the same thread in the same filter state.
Unlimited == render(thread, <<>>, last.before).out

MatchesSome(name) ==
    \E p \in 1..Len(filter_patterns) : re_search(filter_patterns[p], name.v)
Printed(frame) == \E j \in 1..Len(out) : out[j] = frame_line(frame)
Min(a, b) == IF a <= b THEN a ELSE b

\* C1: when bt runs with no argument, a frame of the thread is printed iff
\* filtering is disabled, or the frame has no name, or its name matches none
\* of the patterns.
C1_PrintedIff ==
    (IsBt /\ arg = <<>>) =>
        \A i \in 1..Len(thread) :
            Printed(thread[i]) <=>
                \/ ~last.before
                \/ thread[i].name.isNone
                \/ ~MatchesSome(thread[i].name)

C1_Witness ==
    /\ IsBt /\ arg = <<>> /\ last.before
    /\ \E i, k \in 1..Len(thread) :
          /\ Printed(thread[i]) /\ ~thread[i].name.isNone
          /\ ~Printed(thread[k]) /\ MatchesSome(thread[k].name)

\* C2: with a positive count n, bt prints at most n lines, and once the n-th
\* line is printed no frame after the one it shows is visited.
C2_AtMostMax ==
    (CountParsed /\ Count > 0) =>
        /\ Len(out) <= Count
        /\ Len(out) = Count => visited = out[Count].id + 1

C2_Witness ==
    /\ CountParsed /\ Count > 0
    /\ Len(out) = Count
    /\ visited < Len(thread)
    /\ Len(Unlimited) > Count

\* C3 as stated: a negative count prints what bt with no argument prints.
C3_NegativeIsUnlimited ==
    (CountParsed /\ Count < 0) => out = Unlimited

\* C3 amended: a negative count is accepted by the parse and is a limit that
\* is already reached at the first frame (0 >= n), so bt prints nothing and
\* visits no frame.
C3_NegativePrintsNothing ==
    (CountParsed /\ Count < 0) =>
        /\ out = <<>>
        /\ visited = 0
        /\ error = "none"

C3_Witness ==
    /\ CountParsed /\ Count < 0
    /\ Len(Unlimited) > 0
    /\ out = <<>>

\* C4: bt 0 prints the same lines as bt with no argument and visits every
\* frame.
C4_ZeroIsUnlimited ==
    (CountParsed /\ Count = 0) =>
        /\ out = Unlimited
        /\ visited = Len(thread)

C4_Witness ==
    /\ CountParsed /\ Count = 0
    /\ Len(out) >= 2

\* C5: a count argument that int() rejects is ignored: bt prints what it
\* prints with no argument, no exception leaves the handler, and the flag is
\* as before.
C5_MalformedIgnored ==
    (IsBt /\ Len(arg) > 0 /\ py_int(arg).exc # "none") =>
        /\ out = Unlimited
        /\ error = "none"
        /\ _filter_enabled = last.before

C5_Witness ==
    /\ IsBt /\ arg = << "a", "b", "c" >>
    /\ Len(out) > 0
    /\ Len(out) < Len(thread)

RECURSIVE Toggles(_)
Toggles(t) ==
    IF Len(t) = 0 THEN 0
    ELSE (IF t[1].op = "toggle" THEN 1 ELSE 0) + Toggles(Tail(t))

\* C6: two toggles in a row restore the filter state they started from, and
\* after any commands since load the filter is enabled exactly when the
\* number of toggles so far is even.
C6_ToggleParity ==
    /\ _filter_enabled <=> (Toggles(trace) % 2 = 0)
    /\ \A i \in 1..(Len(trace) - 1) :
          (trace[i].op = "toggle" /\ trace[i + 1].op = "toggle") =>
              trace[i + 1].after = trace[i].before

C6_Witness ==
    /\ Len(trace) >= 3
    /\ trace[Len(trace) - 1].op = "toggle"
    /\ IsToggle
    /\ ~trace[Len(trace) - 1].before
    /\ ~_filter_enabled

\* C7: a toggle inverts the flag and prints the new state, "enabled" exactly
\* when the flag is true afterwards, whatever command string it was given.
C7_ToggleMessage ==
    IsToggle =>
        /\ _filter_enabled = ~last.before
        /\ Len(out) = 1
        /\ out[1].fmt = "Task-local frame filtering {status}"
        /\ (out[1].status = "enabled") <=> _filter_enabled
        /\ (out[1].status = "disabled") <=> ~_filter_enabled

C7_Witness ==
    /\ IsToggle
    /\ arg = << "a", "b", "c" >>
    /\ _filter_enabled
    /\ Len(trace) >= 2

\* C8: the flag is true at load, and no run of bt changes it.
C8_BtKeepsFlag ==
    /\ _filter_enabled = TRUE
    /\ [][(Len(trace') > Len(trace) /\ trace'[Len(trace')].op = "bt")
            => _filter_enabled' = _filter_enabled]_vars

C8_Witness ==
    /\ IsBt
    /\ ~_filter_enabled
    /\ Len(arg) > 0 /\ py_int(arg).exc # "none"
    /\ Len(thread) > 0

\* C9: with a positive count n, bt prints exactly the first min(n, k) lines
\* of the k lines that bt with no argument prints.
C9_PrefixOfUnlimited ==
    (CountParsed /\ Count > 0) =>
        out = SubSeq(Unlimited, 1, Min(Count, Len(Unlimited)))

C9_Witness ==
    /\ CountParsed /\ Count > 0
    /\ last.before
    /\ Len(out) = Count
    /\ Len(Unlimited) > Count
    /\ \E i \in 1..out[Count].id : MatchesSome(thread[i].name)

\* C10: the frames bt prints are a subsequence of the thread's frames, each
\* at most once and in the thread's order; with filtering disabled and no
\* argument they are all of the thread's frames.
C10_HostOrder ==
    IsBt =>
        /\ \A j \in 1..Len(out) :
              /\ out[j].id + 1 \in 1..Len(thread)
              /\ out[j] = frame_line(thread[out[j].id + 1])
        /\ \A j \in 1..(Len(out) - 1) : out[j].id < out[j + 1].id
        /\ (~last.before /\ arg = <<>>) =>
              out = [i \in 1..Len(thread) |-> frame_line(thread[i])]

C10_Witness ==
    /\ IsBt /\ ~last.before /\ arg = <<>>
    /\ Len(out) >= 2
    /\ \E i \in 1..Len(thread) : MatchesSome(thread[i].name)

====
